---- MODULE Spec2Model ----
(***************************************************************************)
(* Model of scraper.py: the Fetcher (get_page_content), the Region Lister  *)
(* (extract_clinics_from_region), the Clinic Detail Extractor              *)
(* (extract_clinic_details) and the Orchestrator (scrape_all_clinics).     *)
(*                                                                         *)
(* Representation of Python values:                                        *)
(*   - None / an absent regex match is the empty tuple <<>>, a present     *)
(*     value v is <<v>>;                                                   *)
(*   - clinic names and URL parts are TLA+ strings;                        *)
(*   - page text is a sequence of tokens: one-character strings, plus word *)
(*     tokens ("Call", "Services Available", ...), each standing for that  *)
(*     run of characters.                                                  *)
(***************************************************************************)
EXTENDS Integers, Sequences, FiniteSets, TLC

VARIABLES pc, r, i, all_clinics, clinic_data, successful, failed,
          attempt, flog, content, outcomes, regionLens, fileOpens, rows, notice

vars == <<pc, r, i, all_clinics, clinic_data, successful, failed,
          attempt, flog, content, outcomes, regionLens, fileOpens, rows, notice>>

(***************************************************************************)
(* Bounds of the model.                                                    *)
(***************************************************************************)
\* number of entries of REGIONS that the model runs through (the source has 11)
NumRegions == 2
\* longest anchor sequence of a region page drawn in SpecLister
MaxAnchors == 3
\* longest sequence of body elements of a clinic page drawn in SpecExtract
MaxElems == 3

None == <<>>
Some(v) == <<v>>

RECURSIVE SeqsUpTo(_, _)
SeqsUpTo(S, n) ==
  IF n = 0 THEN {<<>>}
  ELSE LET shorter == SeqsUpTo(S, n - 1)
       IN  shorter \cup {Append(s, e) : s \in {t \in shorter : Len(t) = n - 1}, e \in S}

(***************************************************************************)
(* Character classes and string helpers (Python re / str semantics).       *)
(***************************************************************************)
Digits == {"0", "1", "2", "3", "4", "5", "6", "7", "8", "9"}
\* \s
IsSpace(c) == c \in {" ", "\n"}
\* \d
IsDigit(c) == c \in Digits

\* str.strip() on a token sequence
RECURSIVE lstrip(_)
lstrip(s) == IF s # <<>> /\ IsSpace(Head(s)) THEN lstrip(Tail(s)) ELSE s
RECURSIVE rstrip(_)
rstrip(s) ==
  IF s # <<>> /\ IsSpace(s[Len(s)]) THEN rstrip(SubSeq(s, 1, Len(s) - 1)) ELSE s
strip(s) == rstrip(lstrip(s))

\* str.strip() on the name strings of the model: the names that carry
\* surrounding whitespace are listed, every other name has none
strip_name(s) ==
  CASE s = " " -> ""
    [] s = " Our Clinics " -> "Our Clinics"
    [] OTHER -> s

\* the character classes of the patterns, by name
InClass(cls, c) ==
  CASE cls = "phone_group" -> IsDigit(c) \/ IsSpace(c) \/ c \in {"(", ")", "-", "+"}
    [] cls = "landline_tail" -> IsDigit(c) \/ IsSpace(c) \/ c \in {"(", ")", "-"}
    [] cls = "space" -> IsSpace(c)

\* index of the last token from position `from` on that still is in the
\* class: the end of a greedy [class]* run (from - 1 when the run is empty)
RECURSIVE RunEnd(_, _, _)
RunEnd(s, from, cls) ==
  IF from <= Len(s) /\ InClass(cls, s[from]) THEN RunEnd(s, from + 1, cls) ELSE from - 1

\* first index at or after `from` whose token equals c (0 when there is none)
RECURSIVE IndexOf(_, _, _)
IndexOf(s, c, from) ==
  IF from > Len(s) THEN 0
  ELSE IF s[from] = c THEN from
  ELSE IndexOf(s, c, from + 1)

RECURSIVE Flatten(_)
Flatten(ss) == IF ss = <<>> THEN <<>> ELSE Head(ss) \o Flatten(Tail(ss))

\* sep.join(parts)
RECURSIVE join(_, _)
join(sep, parts) ==
  IF parts = <<>> THEN <<>>
  ELSE IF Len(parts) = 1 THEN parts[1]
  ELSE parts[1] \o sep \o join(sep, Tail(parts))

(***************************************************************************)
(* Configuration data.                                                     *)
(***************************************************************************)
\* BASE_URL as its two parts: the archive prefix and the site
ArchivePrefix == "https://web.archive.org/web/20250708180027/"
BASE_URL == <<ArchivePrefix, "https://www.myfootdr.com.au">>

REGIONS == 1 .. NumRegions

OverrideName == "Allsports Podiatry Noosa"
OverrideAddress == <<"Unit 4, 17 Sunshine Beach Rd", "\n", "Noosa QLD 4567">>
\* the dict as a function from its keys
ADDRESS_OVERRIDES == [n \in {OverrideName} |-> OverrideAddress]

(***************************************************************************)
(* Fetcher: get_page_content.                                              *)
(***************************************************************************)
max_retries == 3

\* `if attempt < max_retries - 1` : sleep and retry, else give up
RetryAfterFailure_AlwaysRetry(a) == a < max_retries
RetryAfterFailure(a) == a < max_retries - 1

(***************************************************************************)
(* Region Lister: extract_clinics_from_region.                             *)
(*                                                                         *)
(* An href is [segs, trail] and stands for the string made of "/" before   *)
(* every segment of segs, and one more "/" at the end when trail is TRUE;  *)
(* segs = <<>> with trail = FALSE is the empty href.  A segment holds no   *)
(* "/".                                                                    *)
(***************************************************************************)
Href(segs, trail) == [segs |-> segs, trail |-> trail]

\* '/<marker>/' in href
HasMarker(href, marker) ==
  \E k \in 1 .. Len(href.segs) :
    href.segs[k] = marker /\ (k < Len(href.segs) \/ href.trail)

\* re.search(r'/our-clinics/([^/]+)/', href): the positions of the marker
\* that are followed by a non-empty segment and a further "/"
SlugMatches(href) ==
  {k \in 1 .. Len(href.segs) - 1 :
     /\ href.segs[k] = "our-clinics"
     /\ href.segs[k + 1] # ""
     /\ (k + 1 < Len(href.segs) \/ href.trail)}

Min(S) == CHOOSE m \in S : \A n \in S : m <= n
Max(S) == CHOOSE m \in S : \A n \in S : n <= m

\* href.split('/our-clinics/')[-1].split('/')[0].strip()
SlugFallback(href) ==
  LET marks == {k \in 1 .. Len(href.segs) :
                  href.segs[k] = "our-clinics" /\ (k < Len(href.segs) \/ href.trail)}
      last == Max(marks)
  IN  IF last + 1 <= Len(href.segs) THEN strip_name(href.segs[last + 1]) ELSE ""

\* lines 90-100: the slug by the primary pattern, else by the fallback
clinic_slug(href) ==
  IF SlugMatches(href) # {} THEN href.segs[Min(SlugMatches(href)) + 1]
  ELSE SlugFallback(href)

\* build_clinic_url: BASE_URL + "/" + clinic_path.lstrip('/')
build_clinic_url(clinic_path) == Append(BASE_URL, clinic_path)

\* clinic_url.replace(prefix_to_remove, '')
RemovePrefix(url) == SelectSeq(url, LAMBDA part : part # ArchivePrefix)

\* lines 70-78: the display name of an anchor
anchor_text(a) ==
  IF a.text # "" /\ Len(a.text) >= 2 THEN a.text
  ELSE LET attr == IF a.title # "" THEN a.title
                   ELSE IF a.aria # "" THEN a.aria
                   ELSE ""
       IN  IF attr # "" THEN attr
           ELSE IF a.nested # None THEN a.nested[1]
           ELSE ""

\* lines 80-102: whether the anchor yields a clinic link
Accepted(a) ==
  LET text == anchor_text(a)
  IN  /\ ~(a.href.segs = <<>> /\ ~a.href.trail)
      /\ text # ""
      /\ Len(text) >= 2
      /\ strip_name(text) # "Our Clinics"
      /\ HasMarker(a.href, "our-clinics")
      /\ ~HasMarker(a.href, "regions")
      /\ clinic_slug(a.href) # ""

\* lines 103-106: the link appended for an accepted anchor
ClinicLink(a) ==
  [name |-> anchor_text(a),
   url  |-> RemovePrefix(build_clinic_url("our-clinics/" \o clinic_slug(a.href) \o "/"))]

\* lines 68-106: the list `clinics`
RECURSIVE clinics_of(_)
clinics_of(anchors) ==
  IF anchors = <<>> THEN <<>>
  ELSE LET rest == clinics_of(SubSeq(anchors, 1, Len(anchors) - 1))
           a    == anchors[Len(anchors)]
       IN  IF Accepted(a) THEN Append(rest, ClinicLink(a)) ELSE rest

\* lines 109-114: the loop that removes duplicates, carried as <<seen, unique_clinics>>
RECURSIVE DedupLoop(_, _, _)
DedupLoop(clinics, seen, unique_clinics) ==
  IF clinics = <<>> THEN unique_clinics
  ELSE LET clinic == Head(clinics)
       IN  IF clinic.url \notin seen
           THEN DedupLoop(Tail(clinics), seen \cup {clinic.url}, Append(unique_clinics, clinic))
           ELSE DedupLoop(Tail(clinics), seen, unique_clinics)

remove_duplicates_KeepAll(clinics) == clinics
remove_duplicates(clinics) == DedupLoop(clinics, {}, <<>>)

\* lines 54-117 after a fetch that returned text: parse the anchors, collect
\* the clinic links, remove duplicates
extract_clinics_from_region(page) == remove_duplicates(clinics_of(page.anchors))

(***************************************************************************)
(* Page content.  get_page_content returns None or response.text; a text   *)
(* is carried as what the HTML parser makes of it:                         *)
(*   kind    "none" (None), "unparseable" (a text the parser rejects with  *)
(*           an exception) or "html";                                      *)
(*   blank   the text is the empty string;                                 *)
(*   anchors the <a href=...> elements in document order;                  *)
(*   body    the sibling elements of the page body in document order, each *)
(*           [name, text, h3]: its tag, its own text and, for an article,  *)
(*           the text of its first <h3> descendant (None without one);     *)
(*   addr    the outcome of re.search for each of the two address patterns *)
(*           on the page text (None or group(1));                          *)
(*   email   the outcome of re.search for the email pattern (None or       *)
(*           group(0)).                                                    *)
(***************************************************************************)
Content(kind, blank, anchors, body, addr, email) ==
  [kind |-> kind, blank |-> blank, anchors |-> anchors, body |-> body,
   addr |-> addr, email |-> email]

NoContent == Content("none", FALSE, <<>>, <<>>, <<None, None>>, None)
Unparseable == Content("unparseable", FALSE, <<>>, <<>>, <<None, None>>, None)
BlankPage == Content("html", TRUE, <<>>, <<>>, <<None, None>>, None)
RegionPage(anchors) == Content("html", FALSE, anchors, <<>>, <<None, None>>, None)
ClinicPage(body, addr, email) == Content("html", FALSE, <<>>, body, addr, email)

Elem(name, text, h3) == [name |-> name, text |-> text, h3 |-> h3]

\* number of characters of a token sequence (a word token counts its letters)
RECURSIVE StrLen(_)
StrLen(s) == IF s = <<>> THEN 0 ELSE Len(Head(s)) + StrLen(Tail(s))

\* element.get_text(): the text of the element and of its descendants
elem_text(e) == (IF e.h3 # None THEN e.h3[1] ELSE <<>>) \o e.text

\* soup.get_text()
get_text(body) == Flatten([k \in 1 .. Len(body) |-> elem_text(body[k])])

(***************************************************************************)
(* Clinic Detail Extractor: phone (lines 142-155).                         *)
(***************************************************************************)
CallWords == {"Call", "call", "CALL"}

\* r'Call\s+([\d\s\(\)\-\+]+)' and r'[\(\s]?0[2-9][\d\s\(\)\-]{7,}' as written
\* in the source, with the number of capturing groups each defines
phone_patterns ==
  << [id |-> "call", groups |-> 1,
      source |-> <<"C", "a", "l", "l", "\\", "s", "+", "(", "[", "\\", "d", "\\", "s",
                   "\\", "(", "\\", ")", "\\", "-", "\\", "+", "]", "+", ")">>],
     [id |-> "landline", groups |-> 0,
      source |-> <<"[", "\\", "(", "\\", "s", "]", "?", "0", "[", "2", "-", "9", "]",
                   "[", "\\", "d", "\\", "s", "\\", "(", "\\", ")", "\\", "-", "]",
                   "{", "7", ",", "}">>] >>

\* '(' in pattern
has_paren(pattern) == \E k \in 1 .. Len(pattern.source) : pattern.source[k] = "("

\* the match of Call\s+([...]+) that starts at position k: None, or group(1).
\* After "Call" comes the greedy run of group-class characters; \s+ takes its
\* leading whitespace and gives the last one back when nothing else is left.
CallMatchAt(t, k) ==
  LET e  == RunEnd(t, k + 1, "phone_group")
      ws == RunEnd(t, k + 1, "space")
  IN  IF ~(k <= Len(t) /\ t[k] \in CallWords) THEN None
      ELSE IF ws < k + 1 THEN None
      ELSE IF e > ws THEN Some(SubSeq(t, ws + 1, e))
      ELSE IF ws > k + 1 THEN Some(SubSeq(t, ws, ws))
      ELSE None

MinLandlineTail == 7

\* the match of [\(\s]?0[2-9][...]{7,} that starts at position k: None, or group(0)
LandlineMatchAt(t, k) ==
  LET lead(p) == p + 1 <= Len(t) /\ t[p] = "0" /\ t[p + 1] \in (Digits \ {"0", "1"})
      tailEnd(p) == RunEnd(t, p + 2, "landline_tail")
      long(p) == tailEnd(p) - (p + 2) + 1 >= MinLandlineTail
  IN  IF k <= Len(t) /\ (t[k] = "(" \/ IsSpace(t[k])) /\ lead(k + 1) /\ long(k + 1)
        THEN Some(SubSeq(t, k, tailEnd(k + 1)))
      ELSE IF lead(k) /\ long(k) THEN Some(SubSeq(t, k, tailEnd(k)))
      ELSE None

\* re.search: the match at the leftmost position that has one
RECURSIVE SearchFrom(_, _, _)
SearchFrom(id, t, k) ==
  IF k > Len(t) THEN None
  ELSE LET m == IF id = "call" THEN CallMatchAt(t, k) ELSE LandlineMatchAt(t, k)
       IN  IF m # None THEN m ELSE SearchFrom(id, t, k + 1)

re_search(pattern, t) == SearchFrom(pattern.id, t, 1)

\* re.sub(r'[^\d\s\(\)\-\+]', '', phone_text).strip()
phone_clean(phone_text) ==
  strip(SelectSeq(phone_text, LAMBDA c : InClass("phone_group", c)))

MinPhoneLen == 5

\* line 151: group(1) when the pattern text holds a "(", else group(0);
\* group(1) of a pattern without a capturing group raises IndexError.
\* The result is [raised, text].
phone_text_of(pattern, m) ==
  IF has_paren(pattern)
  THEN IF pattern.groups >= 1 THEN [raised |-> FALSE, text |-> m[1]]
       ELSE [raised |-> TRUE, text |-> <<>>]
  ELSE [raised |-> FALSE, text |-> m[1]]

\* lines 148-155: the loop over phone_patterns from index k on.
\* The result is [raised, phone].
RECURSIVE phone_loop(_, _)
phone_loop(t, k) ==
  IF k > Len(phone_patterns) THEN [raised |-> FALSE, phone |-> <<>>]
  ELSE LET pattern == phone_patterns[k]
           phone_match == re_search(pattern, t)
       IN  IF phone_match = None THEN phone_loop(t, k + 1)
           ELSE LET g == phone_text_of(pattern, phone_match)
                IN  IF g.raised THEN [raised |-> TRUE, phone |-> <<>>]
                    ELSE IF phone_clean(g.text) # <<>> /\ Len(phone_clean(g.text)) > MinPhoneLen
                    THEN [raised |-> FALSE, phone |-> phone_clean(g.text)]
                    ELSE phone_loop(t, k + 1)

extract_phone(t) == phone_loop(t, 1)

(***************************************************************************)
(* Email (lines 157-160) and address (lines 162-180).                      *)
(***************************************************************************)
extract_email(page) == IF page.email # None THEN page.email[1] ELSE <<>>

\* re.sub(r'\s+', ' ', s)
RECURSIVE collapse_spaces(_)
collapse_spaces(s) ==
  IF s = <<>> THEN <<>>
  ELSE IF IsSpace(Head(s)) THEN <<" ">> \o collapse_spaces(lstrip(s))
  ELSE <<Head(s)>> \o collapse_spaces(Tail(s))

\* lines 172-178: the first address pattern that matches decides
RECURSIVE address_loop(_, _)
address_loop(addr, k) ==
  IF k > Len(addr) THEN <<>>
  ELSE IF addr[k] # None THEN collapse_spaces(strip(addr[k][1]))
  ELSE address_loop(addr, k + 1)

extract_address(page) == address_loop(page.addr, 1)

(***************************************************************************)
(* Services (lines 182-213).                                               *)
(***************************************************************************)
ServicesMarker == "Services Available"

\* 'Services Available' in heading.get_text()
has_marker_text(t) == \E k \in 1 .. Len(t) : t[k] = ServicesMarker

\* lines 187-190: the first h2/h3 of the document, in document order, whose
\* text holds the marker: [at, nested], the position of the body element and
\* whether the heading is the h3 inside that (article) element; at = 0 when
\* there is none
RECURSIVE find_heading(_, _)
find_heading(body, k) ==
  IF k > Len(body) THEN [at |-> 0, nested |-> FALSE]
  ELSE IF body[k].name \in {"h2", "h3"} /\ has_marker_text(elem_text(body[k]))
    THEN [at |-> k, nested |-> FALSE]
  ELSE IF body[k].name \notin {"h2", "h3"} /\ body[k].h3 # None /\ has_marker_text(body[k].h3[1])
    THEN [at |-> k, nested |-> TRUE]
  ELSE find_heading(body, k + 1)

\* re.sub(r'\[([^\]]+)\]\([^\)]+\)', r'\1', s) from position k on
RECURSIVE md_sub(_, _)
md_sub(s, k) ==
  IF k > Len(s) THEN <<>>
  ELSE LET j == IndexOf(s, "]", k + 1)
           m == IF j # 0 /\ j + 1 <= Len(s) /\ s[j + 1] = "(" THEN IndexOf(s, ")", j + 2) ELSE 0
       IN  IF s[k] = "[" /\ j > k + 1 /\ m > j + 2
           THEN SubSeq(s, k + 1, j - 1) \o md_sub(s, m + 1)
           ELSE <<s[k]>> \o md_sub(s, k + 1)

MinServiceLen == 2

\* line 197: the walk stops at the next h2
stops_walk_Never(e) == FALSE
stops_walk(e) == e.name = "h2"

\* lines 201-209: what one sibling adds to `services`
service_of(e) ==
  IF e.name = "article" /\ e.h3 # None
  THEN LET service_text == md_sub(strip(e.h3[1]), 1)
       IN  IF service_text # <<>> /\ StrLen(service_text) > MinServiceLen
           THEN <<service_text>> ELSE <<>>
  ELSE <<>>

\* lines 194-211: the walk over the siblings from position k on
RECURSIVE services_walk(_, _)
services_walk(body, k) ==
  IF k > Len(body) THEN <<>>
  ELSE IF stops_walk(body[k]) THEN <<>>
  ELSE service_of(body[k]) \o services_walk(body, k + 1)

\* lines 183-213
extract_services(body) ==
  LET h == find_heading(body, 1)
      services == IF h.at = 0 \/ h.nested THEN <<>> ELSE services_walk(body, h.at + 1)
  IN  join(<<",", " ">>, services)

(***************************************************************************)
(* extract_clinic_details (lines 119-220).  The result is [status,         *)
(* details]: status "ok" with the record, "no_result" (the function        *)
(* returned None) or "IndexError" (the exception left the function).       *)
(***************************************************************************)
\* lines 127-132: BeautifulSoup(None) raises TypeError, as a rejected text
\* does; both are caught
parses_AcceptNone(page) == page.kind # "unparseable"
parses(page) == page.kind = "html"

\* lines 215-218
apply_override_Never(name, address) == address
apply_override(name, address) ==
  IF name \in DOMAIN ADDRESS_OVERRIDES /\ ADDRESS_OVERRIDES[name] # <<>>
  THEN ADDRESS_OVERRIDES[name] ELSE address

EmptyDetails(name) ==
  [Name |-> name, Address |-> <<>>, Email |-> <<>>, Phone |-> <<>>, Services |-> <<>>]

extract_clinic_details(page, clinic_name) ==
  IF ~parses(page) THEN [status |-> "no_result", details |-> EmptyDetails(clinic_name)]
  ELSE LET ph == extract_phone(get_text(page.body))
       IN  IF ph.raised THEN [status |-> "IndexError", details |-> EmptyDetails(clinic_name)]
           ELSE [status |-> "ok",
                 details |-> [Name     |-> clinic_name,
                              Address  |-> apply_override(clinic_name, extract_address(page)),
                              Email    |-> extract_email(page),
                              Phone    |-> ph.phone,
                              Services |-> extract_services(page.body)]]

(***************************************************************************)
(* Inputs: what the network can return.                                    *)
(***************************************************************************)
Anchor(text, title, aria, nested, href) ==
  [text |-> text, title |-> title, aria |-> aria, nested |-> nested, href |-> href]

\* visible text, primary slug pattern
aNoosa == Anchor("Noosa Clinic", "", "", None, Href(<<"our-clinics", "noosa">>, TRUE))
\* no visible text, name from the title; same clinic as aNoosa
aNoosaTitle == Anchor("", OverrideName, "", None, Href(<<"web", "our-clinics", "noosa", "map">>, FALSE))
\* no trailing slash: slug by the fallback
aBrisbane == Anchor("Brisbane Clinic", "", "", None, Href(<<"our-clinics", "brisbane">>, FALSE))
\* one-letter text, name from the nested heading; same clinic as aBrisbane
aBrisbaneNested == Anchor("B", "", "", Some("Brisbane City"), Href(<<"our-clinics", "brisbane">>, TRUE))
\* the non-clinic label, from the aria-label
aLabel == Anchor("", "", " Our Clinics ", None, Href(<<"our-clinics", "all">>, TRUE))
\* a region link
aRegion == Anchor("Gold Coast", "", "", None, Href(<<"our-clinics", "regions", "gold-coast">>, TRUE))
\* no slug after the marker
aNoSlug == Anchor("Find a clinic", "", "", None, Href(<<"our-clinics">>, TRUE))
\* no name at all
aNoName == Anchor("", " ", "", None, Href(<<"our-clinics", "noosa">>, TRUE))

\* an empty href
aNoHref == Anchor("Noosa Clinic", "", "", None, Href(<<>>, FALSE))

Anchors ==
  {aNoosa, aNoosaTitle, aBrisbane, aBrisbaneNested, aLabel, aRegion, aNoSlug, aNoName, aNoHref}

\* "Call " ; "07 5555 1234" ; "12x"
pCall == Elem("p", <<"Call", " ">>, None)
pLandline == Elem("p", <<"0", "7", " ", "5", "5", "5", "5", " ", "1", "2", "3", "4">>, None)
pShort == Elem("p", <<"1", "2", "x">>, None)
h2Services == Elem("h2", <<ServicesMarker>>, None)
h3Services == Elem("h3", <<"Our", " ", ServicesMarker>>, None)
h2Other == Elem("h2", <<"About">>, None)
\* <article><h3> ECG\n</h3></article>
artPlain == Elem("article", <<>>, Some(<<" ", "E", "C", "G", "\n">>))
\* <article><h3>[Xy](u)</h3></article>
artLink == Elem("article", <<>>, Some(<<"[", "X", "y", "]", "(", "u", ")">>))
\* an article without a heading
artBare == Elem("article", <<"x">>, None)

Elems == {pCall, pLandline, pShort, h2Services, h3Services, h2Other, artPlain, artLink, artBare}

addrUnit == <<"Unit 1, 2 Main St", "\n", " ", "Noosa QLD 4567">>
addrStreet == <<"2 Main St", " ", " ", "Noosa QLD 4567">>
AddrHits == {<<None, None>>, <<Some(addrUnit), None>>, <<None, Some(addrStreet)>>,
             <<Some(addrUnit), Some(addrStreet)>>}
EmailHits == {None, Some(<<"info@example.com">>)}

Names == {OverrideName, "Noosa Clinic"}

\* what a region URL can return, for the runs of the Orchestrator
OrchRegionTexts ==
  {BlankPage, Unparseable, RegionPage(<<aNoosa, aLabel>>),
   RegionPage(<<aNoosaTitle, aBrisbane, aNoosa>>)}

\* what a clinic URL can return, for the runs of the Orchestrator
OrchClinicTexts ==
  {BlankPage, Unparseable,
   ClinicPage(<<pCall, pLandline, h2Services, artPlain>>, <<None, Some(addrStreet)>>, None),
   ClinicPage(<<pLandline>>, <<None, None>>, None)}

(***************************************************************************)
(* Orchestrator: scrape_all_clinics, with get_page_content stepping one    *)
(* GET at a time.                                                          *)
(*   pc        "Listing" / "Detailing": at the head of the loop over       *)
(*             REGIONS / all_clinics; "ListFetch" / "DetailFetch": inside  *)
(*             get_page_content; "ListParse" / "DetailParse":              *)
(*             get_page_content has returned `content`; "Writing";         *)
(*             "Done"; "Crashed": an exception left scrape_all_clinics     *)
(*   r, i      the region and the clinic link the loops are at             *)
(*   attempt   the loop variable of get_page_content                       *)
(*   flog      the events of the current call of get_page_content          *)
(*   outcomes  how extract_clinic_details ended for each link so far       *)
(*   regionLens  the length of the list each region returned               *)
(*   fileOpens number of times the output file was opened                  *)
(*   rows      the rows written to the file                                *)
(*   notice    "No clinic data found!" was printed                         *)
(***************************************************************************)
Init ==
  /\ pc = "Listing"
  /\ r = 1
  /\ i = 1
  /\ all_clinics = <<>>
  /\ clinic_data = <<>>
  /\ successful = 0
  /\ failed = 0
  /\ attempt = 0
  /\ flog = <<>>
  /\ content = NoContent
  /\ outcomes = <<>>
  /\ regionLens = <<>>
  /\ fileOpens = 0
  /\ rows = <<>>
  /\ notice = FALSE

\* line 228-230: the loop takes the next region and calls the Region Lister,
\* which calls get_page_content (line 59)
RegionStart ==
  /\ pc = "Listing"
  /\ r <= NumRegions
  /\ pc' = "ListFetch"
  /\ attempt' = 0
  /\ flog' = <<>>
  /\ content' = NoContent
  /\ UNCHANGED <<r, i, all_clinics, clinic_data, successful, failed, outcomes,
                 regionLens, fileOpens, rows, notice>>

ExceptionKinds == {"Timeout", "ConnectionError", "HTTPError"}

Returned(p) == IF p = "ListFetch" THEN "ListParse" ELSE "DetailParse"

\* lines 38-46: requests.get or raise_for_status raises
GetFails ==
  /\ pc \in {"ListFetch", "DetailFetch"}
  /\ \E e \in ExceptionKinds :
       IF RetryAfterFailure(attempt)
       THEN /\ flog' = flog \o <<"get_failed", "sleep">>
            /\ attempt' = attempt + 1
            /\ UNCHANGED <<pc, content>>
       ELSE /\ flog' = Append(flog, "get_failed")
            /\ content' = NoContent
            /\ pc' = Returned(pc)
            /\ UNCHANGED attempt
  /\ UNCHANGED <<r, i, all_clinics, clinic_data, successful, failed, outcomes,
                 regionLens, fileOpens, rows, notice>>

\* lines 38-40: the GET succeeds and response.text is returned
GetSucceeds ==
  /\ pc \in {"ListFetch", "DetailFetch"}
  /\ \E text \in (IF pc = "ListFetch" THEN OrchRegionTexts ELSE OrchClinicTexts) :
       content' = text
  /\ flog' = Append(flog, "get_ok")
  /\ pc' = Returned(pc)
  /\ UNCHANGED <<r, i, all_clinics, clinic_data, successful, failed, attempt, outcomes,
                 regionLens, fileOpens, rows, notice>>

\* `if not content`
falsy(text) == text.kind = "none" \/ text.blank

\* lines 60-117 and 230-234: the rest of extract_clinics_from_region and the
\* loop body of scrape_all_clinics.  A text the parser rejects raises at
\* line 64, which line 233 catches: nothing is added.
region_result(text) ==
  IF falsy(text) THEN <<>>
  ELSE IF ~parses(text) THEN <<>>
  ELSE extract_clinics_from_region(text)

\* line 231: all_clinics.extend(clinics)
extend_SkipKnownUrls(list, items) ==
  list \o SelectSeq(items, LAMBDA c : \A k \in 1 .. Len(list) : list[k].url # c.url)
extend(list, items) == list \o items

RegionFinish ==
  /\ pc = "ListParse"
  /\ all_clinics' = extend(all_clinics, region_result(content))
  /\ regionLens' = Append(regionLens, Len(region_result(content)))
  /\ r' = r + 1
  /\ pc' = "Listing"
  /\ UNCHANGED <<i, clinic_data, successful, failed, attempt, flog, content, outcomes,
                 fileOpens, rows, notice>>

\* lines 236-243: the loop over REGIONS is over
ListingDone ==
  /\ pc = "Listing"
  /\ r > NumRegions
  /\ pc' = "Detailing"
  /\ clinic_data' = <<>>
  /\ successful' = 0
  /\ failed' = 0
  /\ i' = 1
  /\ UNCHANGED <<r, all_clinics, attempt, flog, content, outcomes, regionLens,
                 fileOpens, rows, notice>>

\* line 245: the loop ends when every link has been taken
loop_over_AfterFirst(k, links) == k > 1 \/ k > Len(links)
loop_over(k, links) == k > Len(links)

\* lines 245-249 and 122: the loop takes the next link and calls the Detail
\* Extractor, which calls get_page_content
ClinicStart ==
  /\ pc = "Detailing"
  /\ ~loop_over(i, all_clinics)
  /\ pc' = "DetailFetch"
  /\ attempt' = 0
  /\ flog' = <<>>
  /\ content' = NoContent
  /\ UNCHANGED <<r, i, all_clinics, clinic_data, successful, failed, outcomes,
                 regionLens, fileOpens, rows, notice>>

\* lines 127-220 and 251-259: the rest of extract_clinic_details and of the
\* loop body
ClinicFinish ==
  /\ pc = "DetailParse"
  /\ LET res == extract_clinic_details(content, all_clinics[i].name)
     IN  CASE res.status = "ok" ->
                /\ clinic_data' = Append(clinic_data, res.details)
                /\ successful' = successful + 1
                /\ outcomes' = Append(outcomes, "ok")
                /\ i' = i + 1
                /\ pc' = "Detailing"
                /\ UNCHANGED failed
           [] res.status = "no_result" ->
                /\ failed' = failed + 1
                /\ outcomes' = Append(outcomes,
                                 IF content.kind = "none" THEN "no_content" ELSE "unparseable")
                /\ i' = i + 1
                /\ pc' = "Detailing"
                /\ UNCHANGED <<clinic_data, successful>>
           [] res.status = "IndexError" ->
                /\ outcomes' = Append(outcomes, "IndexError")
                /\ pc' = "Crashed"
                /\ UNCHANGED <<clinic_data, successful, failed, i>>
  /\ UNCHANGED <<r, all_clinics, attempt, flog, content, regionLens, fileOpens, rows, notice>>

\* line 261: the loop over all_clinics is over
DetailingDone ==
  /\ pc = "Detailing"
  /\ loop_over(i, all_clinics)
  /\ pc' = "Writing"
  /\ UNCHANGED <<r, i, all_clinics, clinic_data, successful, failed, attempt, flog,
                 content, outcomes, regionLens, fileOpens, rows, notice>>

HeaderRow ==
  [Name |-> "Name of Clinic", Address |-> "Address", Email |-> "Email",
   Phone |-> "Phone", Services |-> "Services"]

\* line 263: `if clinic_data`
has_data_Always(data) == TRUE
has_data(data) == data # <<>>

\* lines 262-274: open() either succeeds or raises OSError, which nothing catches
Write ==
  /\ pc = "Writing"
  /\ IF has_data(clinic_data)
     THEN /\ fileOpens' = fileOpens + 1
          /\ \E opened \in BOOLEAN :
               IF opened
               THEN rows' = <<HeaderRow>> \o clinic_data /\ pc' = "Done"
               ELSE rows' = rows /\ pc' = "Crashed"
          /\ UNCHANGED notice
     ELSE /\ notice' = TRUE
          /\ pc' = "Done"
          /\ UNCHANGED <<fileOpens, rows>>
  /\ UNCHANGED <<r, i, all_clinics, clinic_data, successful, failed, attempt, flog,
                 content, outcomes, regionLens>>

Next ==
  \/ RegionStart
  \/ GetFails
  \/ GetSucceeds
  \/ RegionFinish
  \/ ListingDone
  \/ ClinicStart
  \/ ClinicFinish
  \/ DetailingDone
  \/ Write

Spec == Init /\ [][Next]_vars

(***************************************************************************)
(* The Region Lister on its own: get_page_content has returned the text of *)
(* the last region's page, any anchor sequence up to MaxAnchors long, and  *)
(* the earlier regions returned nothing.                                   *)
(***************************************************************************)
InitLister ==
  /\ pc = "ListParse"
  /\ r = NumRegions
  /\ i = 1
  /\ all_clinics = <<>>
  /\ clinic_data = <<>>
  /\ successful = 0
  /\ failed = 0
  /\ attempt = 0
  /\ flog = <<"get_ok">>
  /\ content \in {RegionPage(as) : as \in SeqsUpTo(Anchors, MaxAnchors)}
  /\ outcomes = <<>>
  /\ regionLens = [k \in 1 .. NumRegions - 1 |-> 0]
  /\ fileOpens = 0
  /\ rows = <<>>
  /\ notice = FALSE

NextLister == RegionFinish

SpecLister == InitLister /\ [][NextLister]_vars

(***************************************************************************)
(* The Detail Extractor on its own: one link was discovered, under any of  *)
(* the names, and get_page_content has returned for it: None, a text the   *)
(* parser rejects, or any page of up to MaxElems body elements with any    *)
(* outcome of the address and email patterns.                              *)
(***************************************************************************)
ClinicTexts ==
  {NoContent, Unparseable}
    \cup {ClinicPage(body, addr, email) :
            body \in SeqsUpTo(Elems, MaxElems), addr \in AddrHits, email \in EmailHits}

InitExtract ==
  /\ pc = "DetailParse"
  /\ r = NumRegions + 1
  /\ i = 1
  /\ \E name \in Names :
       all_clinics = <<[name |-> name,
                        url |-> RemovePrefix(build_clinic_url("our-clinics/noosa/"))]>>
  /\ clinic_data = <<>>
  /\ successful = 0
  /\ failed = 0
  /\ attempt = 0
  /\ \E text \in ClinicTexts :
       /\ content = text
       /\ flog = IF text.kind = "none"
                 THEN <<"get_failed", "sleep", "get_failed", "sleep", "get_failed">>
                 ELSE <<"get_ok">>
  /\ outcomes = <<>>
  /\ regionLens = [k \in 1 .. NumRegions |-> IF k = 1 THEN 1 ELSE 0]
  /\ fileOpens = 0
  /\ rows = <<>>
  /\ notice = FALSE

NextExtract == ClinicFinish

SpecExtract == InitExtract /\ [][NextExtract]_vars

(***************************************************************************)
(* Properties.                                                             *)
(***************************************************************************)
RECURSIVE Sum(_)
Sum(ns) == IF ns = <<>> THEN 0 ELSE Head(ns) + Sum(Tail(ns))

\* the elements of s at the positions of the set K, in order
AtPositions(s, K) ==
  [n \in 1 .. Cardinality(K) |-> s[CHOOSE k \in K : Cardinality({j \in K : j <= k}) = n]]

Phase ==
  CASE pc \in {"Listing", "ListFetch", "ListParse"} -> "Listing"
    [] pc \in {"Detailing", "DetailFetch", "DetailParse"} -> "Detailing"
    [] OTHER -> pc

\* the positions of the links for which a record was appended
OkPositions == {k \in 1 .. Len(outcomes) : outcomes[k] = "ok"}

\* extract_clinic_details has just ended for link i - 1, with a record /
\* in any way
DetailEnded ==
  \/ pc = "Detailing" /\ i > 1
  \/ pc = "Crashed" /\ Len(outcomes) = i
RecordEmitted == pc = "Detailing" /\ i > 1 /\ outcomes[i - 1] = "ok"
LastLink == all_clinics[Len(outcomes)]
LastRecord == clinic_data[Len(clinic_data)]

\* C1: the run never ends early: no exception leaves scrape_all_clinics
\* while regions or clinic links are still to be processed, whatever the
\* fetches return and whatever the pages contain.
C1_NeverTerminatesEarly ==
  ~(pc = "Crashed" /\ (Len(regionLens) < NumRegions \/ i <= Len(all_clinics)))

\* C2: the records are exactly the links whose fetch returned a text that
\* was parsed, one record per such link and under the link's name, every
\* other processed link is counted as failed, and a fetch that returned None
\* adds no record and counts as failed.
C2_RecordPerParsedFetch ==
  /\ Len(clinic_data) = Cardinality(OkPositions)
  /\ \A n \in 1 .. Len(clinic_data) :
       clinic_data[n].Name = AtPositions(all_clinics, OkPositions)[n].name
  /\ Phase = "Detailing" =>
       failed = Cardinality({k \in 1 .. Len(outcomes) :
                               outcomes[k] \in {"no_content", "unparseable"}})
  /\ (DetailEnded /\ content.kind = "none") => (pc = "Detailing" /\ outcomes[i - 1] = "no_content")
  /\ (DetailEnded /\ outcomes[Len(outcomes)] = "ok") => (content.kind = "html")

C2_Witness ==
  /\ pc = "Detailing" /\ i = 3
  /\ content.kind = "none"
  /\ outcomes = <<"ok", "no_content">>
  /\ Len(clinic_data) = 1 /\ failed = 1

\* C3 (state part): when get_page_content has returned None its events were
\* exactly GET, sleep, GET, sleep, GET, all three GETs failing; when it has
\* returned a text, the successful GET is the last event and only failed
\* GETs, each followed by a sleep, come before it.
FailedRounds(n) == Flatten([k \in 1 .. n |-> <<"get_failed", "sleep">>])

C3_Returned ==
  pc \in {"ListParse", "DetailParse"} =>
    IF content.kind = "none"
    THEN flog = <<"get_failed", "sleep", "get_failed", "sleep", "get_failed">>
    ELSE \E n \in 0 .. 2 : flog = Append(FailedRounds(n), "get_ok")

\* C3 (step part): after a None the caller goes on to the next region or
\* link without raising and without adding a link or a record.
C3_CallerContinues ==
  (pc \in {"ListParse", "DetailParse"} /\ content.kind = "none") =>
    /\ pc' = Phase
    /\ all_clinics' = all_clinics
    /\ clinic_data' = clinic_data
    /\ (pc = "ListParse" => r' = r + 1)
    /\ (pc = "DetailParse" => i' = i + 1)

\* C3: get_page_content makes exactly 3 GETs when all fail, sleeping after
\* the first two only, and returns None without raising, after which its
\* callers continue; a successful GET returns at once.
C3_Fetcher == []C3_Returned /\ [][C3_CallerContinues]_vars

C3_Witness ==
  /\ pc = "ListParse"
  /\ content.kind = "none"
  /\ Len(flog) = 5

\* C4: the list a region returns has no two entries with the same URL and
\* is the sequence of the accepted anchors' links without every entry whose
\* URL an earlier entry has.
RegionListed == pc = "Listing" /\ regionLens # <<>> /\ ~falsy(content) /\ parses(content)
LastRegionList ==
  SubSeq(all_clinics, Len(all_clinics) - regionLens[Len(regionLens)] + 1, Len(all_clinics))
FirstOccurrences(cs) ==
  AtPositions(cs, {k \in 1 .. Len(cs) : \A j \in 1 .. k - 1 : cs[j].url # cs[k].url})

C4_RegionListDeduplicated ==
  RegionListed =>
    /\ \A a, b \in 1 .. Len(LastRegionList) :
         a # b => LastRegionList[a].url # LastRegionList[b].url
    /\ LastRegionList = FirstOccurrences(clinics_of(content.anchors))

C4_Witness ==
  /\ RegionListed
  /\ Len(LastRegionList) = 2
  /\ Len(clinics_of(content.anchors)) = 3
  /\ clinics_of(content.anchors)[3].url = LastRegionList[1].url
  /\ clinics_of(content.anchors)[3].name # LastRegionList[1].name

\* C5: the output file is opened only with at least one record collected,
\* a run that reaches Writing opens it exactly when it has a record, and
\* prints the notice instead, without opening it, when it has none.
C5_OpenIffRecords ==
  /\ fileOpens > 0 => clinic_data # <<>>
  /\ notice => (clinic_data = <<>> /\ fileOpens = 0)
  /\ pc = "Done" => ((fileOpens = 1) <=> (clinic_data # <<>>))
  /\ pc = "Done" => (notice <=> (clinic_data = <<>>))
  /\ pc = "Done" => ((rows # <<>>) <=> (clinic_data # <<>>))

C5_Witness ==
  /\ pc = "Done"
  /\ all_clinics = <<>>
  /\ notice
  /\ fileOpens = 0

\* C6: a record whose clinic name is a key of the override table has the
\* override value as its address whatever the address patterns matched; any
\* other record has the extractor's own address.
C6_OverrideDecidesAddress ==
  RecordEmitted =>
    IF LastLink.name \in DOMAIN ADDRESS_OVERRIDES
    THEN LastRecord.Address = ADDRESS_OVERRIDES[LastLink.name]
    ELSE LastRecord.Address = extract_address(content)

C6_Witness ==
  /\ RecordEmitted
  /\ LastLink.name = OverrideName
  /\ content.addr[1] # None
  /\ extract_address(content) # OverrideAddress
  /\ LastRecord.Address = OverrideAddress

\* the service cards the claim speaks of: the article siblings after the
\* heading at position `at` and before the next h2
CardsAfter(body, at) ==
  {k \in at + 1 .. Len(body) :
     /\ body[k].name = "article"
     /\ \A j \in at + 1 .. k : body[j].name # "h2"}

\* the names taken from the cards, each card's h3 text read by Text
ServicesOfCards(body, at, Text(_)) ==
  LET named == {k \in CardsAfter(body, at) :
                  body[k].h3 # None /\ StrLen(Text(body[k].h3[1])) > 2}
  IN  join(<<",", " ">>, [n \in 1 .. Cardinality(named) |-> Text(AtPositions(body, named)[n].h3[1])])

HeadingText(t) == strip(t)
LinkFreeText(t) == md_sub(strip(t), 1)

\* C7 as stated: with a "Services Available" heading among the siblings,
\* Services is the ", "-joined h3 texts longer than 2 characters of the cards
\* between that heading and the next h2; without such a heading it is empty.
C7_ServicesAreHeadingTexts ==
  RecordEmitted =>
    LET h == find_heading(content.body, 1)
    IN  /\ h.at = 0 => LastRecord.Services = <<>>
        /\ (h.at # 0 /\ ~h.nested) =>
             LastRecord.Services = ServicesOfCards(content.body, h.at, HeadingText)

\* C7 as amended: the same, with each h3 text first freed of markdown link
\* wrappers ([text](url) becomes text) and the length test applied to the
\* result.
C7_ServicesAreLinkFreeHeadingTexts ==
  RecordEmitted =>
    LET h == find_heading(content.body, 1)
    IN  /\ h.at = 0 => LastRecord.Services = <<>>
        /\ (h.at # 0 /\ ~h.nested) =>
             LastRecord.Services = ServicesOfCards(content.body, h.at, LinkFreeText)

C7_Witness ==
  /\ RecordEmitted
  /\ content.body = <<h2Services, artPlain, artPlain>>
  /\ LastRecord.Services = <<"E", "C", "G", ",", " ", "E", "C", "G">>

\* the phone the claim describes: the first pattern that matches decides
ClaimedPhone(t) ==
  LET kept(text) == IF Len(phone_clean(text)) > 5 THEN phone_clean(text) ELSE <<>>
      call == re_search(phone_patterns[1], t)
      landline == re_search(phone_patterns[2], t)
  IN  IF call # None THEN kept(call[1])
      ELSE IF landline # None THEN kept(landline[1])
      ELSE <<>>

\* C8: for every page that was fetched and parsed, phone extraction
\* completes, and Phone is decided by the "Call" match alone when there is
\* one, else by the whole landline match when there is one, kept only if
\* longer than 5 characters after cleaning.
C8_PhoneFirstMatchWins ==
  (DetailEnded /\ content.kind = "html") =>
    /\ outcomes[Len(outcomes)] = "ok"
    /\ LastRecord.Phone = ClaimedPhone(get_text(content.body))

\* C9 (state part): a clinic page is fetched only after every region was
\* attempted, the file is opened at most once and only after the extractor
\* ran for every link.
C9_Order ==
  /\ Phase = "Listing" => (outcomes = <<>> /\ fileOpens = 0 /\ ~notice)
  /\ Phase \in {"Detailing", "Writing", "Done"} => Len(regionLens) = NumRegions
  /\ Phase = "Detailing" => (fileOpens = 0 /\ ~notice)
  /\ pc \in {"DetailFetch", "DetailParse"} => Len(outcomes) = i - 1
  /\ fileOpens <= 1
  /\ fileOpens = 1 => Len(outcomes) = Len(all_clinics)
  /\ Phase \in {"Writing", "Done"} => Len(outcomes) = Len(all_clinics)

\* C9 (step part): the phase stays or moves to the next one in the order
\* Listing, Detailing, Writing, Done (or the run is ended by an exception).
Rank(p) ==
  CASE p = "Listing" -> 1 [] p = "Detailing" -> 2 [] p = "Writing" -> 3 [] p = "Done" -> 4

C9_PhaseStep ==
  (pc' # "Crashed" /\ pc # "Crashed") =>
     \/ Rank(Phase') = Rank(Phase)
     \/ Rank(Phase') = Rank(Phase) + 1

\* C9: the phases occur in the order Listing, Detailing, Writing, Done.
C9_PhasesInOrder == []C9_Order /\ [][C9_PhaseStep]_vars

C9_Witness ==
  /\ pc = "Done"
  /\ fileOpens = 1
  /\ Len(all_clinics) >= 2
  /\ Len(outcomes) = Len(all_clinics)

\* C10: during Detailing successful + failed is the number of links
\* processed and the records number successful; after it successful +
\* failed is the number of links, which is the sum of the regions' list
\* lengths, and the records follow the order of discovery.
C10_Tally ==
  /\ Len(clinic_data) = successful
  /\ Len(all_clinics) = Sum(regionLens)
  /\ Phase = "Detailing" => successful + failed = i - 1
  /\ Phase \in {"Writing", "Done"} => successful + failed = Len(all_clinics)
  /\ \A n \in 1 .. Len(clinic_data) :
       \E k \in n .. Len(outcomes) :
          /\ outcomes[k] = "ok"
          /\ Cardinality({j \in 1 .. k : outcomes[j] = "ok"}) = n
          /\ clinic_data[n].Name = all_clinics[k].name

C10_Witness ==
  /\ pc = "Writing"
  /\ failed >= 1
  /\ \E a, b \in 1 .. Len(all_clinics) :
       /\ a < b
       /\ all_clinics[a].url = all_clinics[b].url
       /\ outcomes[a] = "ok" /\ outcomes[b] = "ok"

====
